---- MODULE Spec2Model ----
(***************************************************************************)
(* A model of src/neuralpredictors/data/datasets/movies.py:                *)
(*   - NRandomSubSequenceDataset (the random-subsequence augmented view),  *)
(*   - H5SequenceSet / MovieSet (the lazy/eager aligned sequence set).     *)
(* Python lists and arrays are 0-based; the sequences below are 1-based,   *)
(* so element i of a Python list is element i + 1 of its sequence.         *)
(***************************************************************************)
EXTENDS Integers, Sequences, FiniteSets, TLC

VARIABLES
    original_tiers,   \* original_dat.trial_info.tiers of the base collection
    time_len,         \* length of the time axis (axis 1) of every base sample
    view,             \* an NRandomSubSequenceDataset (args, status and fields)
    twin,             \* a second NRandomSubSequenceDataset over the same base
    np_random,        \* state of numpy's global random generator
    samples_read,     \* base items read so far through original_dat[...]
    ret,              \* what the last call on the view returned
    fid,              \* the opened HDF5 container of the H5SequenceSet
    h5,               \* an H5SequenceSet / MovieSet (args, status and fields)
    last_mode,        \* the last of load_content / unload_content called on h5
    h5ret             \* what the last call on the H5SequenceSet returned

vars == <<original_tiers, time_len, view, twin, np_random, samples_read, ret,
          fid, h5, last_mode, h5ret>>

viewVars == <<original_tiers, time_len, view, twin, np_random, samples_read, ret>>
h5Vars == <<fid, h5, last_mode, h5ret>>

-----------------------------------------------------------------------------
(* Bounds of the model *)

MaxItems == 2     \* base items
MaxTime == 3      \* time steps of a base sample
MaxNum == 2       \* num_random_subsequence

MaxLen == 1       \* members of a group of the container
MaxKeys == 2      \* data_keys of an H5SequenceSet
MaxStages == 1    \* transforms of an H5SequenceSet

Seeds == {0, 1}

StartVals == {0, 1}

-----------------------------------------------------------------------------
(* Small helpers *)

Min(a, b) == IF a < b THEN a ELSE b

Max(a, b) == IF a > b THEN a ELSE b

RECURSIVE SeqsUpTo(_, _)
SeqsUpTo(S, n) ==
    IF n = 0 THEN {<<>>}
    ELSE LET shorter == SeqsUpTo(S, n - 1)
         IN  shorter \cup {Append(s, x) : s \in shorter, x \in S}

Repeat(x, n) == [i \in 1..n |-> x]

RECURSIVE SumSeq(_)
SumSeq(s) == IF s = <<>> THEN 0 ELSE Head(s) + SumSeq(Tail(s))

\* a[lo:hi] of Python on a sequence a (indices clamped, negative from the end)
PySlice(a, lo, hi) ==
    LET n == Len(a)
        l == IF lo < 0 THEN Max(lo + n, 0) ELSE Min(lo, n)
        h == IF hi < 0 THEN Max(hi + n, 0) ELSE Min(hi, n)
    IN  SubSeq(a, l + 1, h)

-----------------------------------------------------------------------------
(* The base collection consumed by the view *)

Tiers == {"train", "val", "none"}

Fields == {"inputs", "responses"}

FieldNo(k) == IF k = "inputs" THEN 1 ELSE 2

\* original_dat[ii]: a named tuple with one array per field; only axis 1
\* (time) is modelled, every entry tells its item, field and time step
OriginalGetItem(ii, T) ==
    [k \in Fields |-> [t \in 1..T |-> 100 * ii + 10 * FieldNo(k) + t]]

-----------------------------------------------------------------------------
(* numpy's global generator: seed() and randint() *)

RngSeed(seed) == seed % 4

RngStep(s) == (5 * s + 3) % 4

\* np.random.randint(low, high, size): ValueError when low >= high
RECURSIVE RandintDraw(_, _, _, _)
RandintDraw(s, low, high, size) ==
    IF size = 0 THEN [vals |-> <<>>, rng |-> s]
    ELSE LET s1 == RngStep(s)
             rest == RandintDraw(s1, low, high, size - 1)
         IN  [vals |-> <<low + (s1 % (high - low))>> \o rest.vals, rng |-> rest.rng]

Randint_NoRangeCheck(s, low, high, size) ==
    IF low >= high
    THEN [err |-> "", vals |-> Repeat(0, size), rng |-> s]
    ELSE [err |-> ""] @@ RandintDraw(s, low, high, size)

Randint(s, low, high, size) ==
    IF low >= high
    THEN [err |-> "ValueError", vals |-> <<>>, rng |-> s]
    ELSE [err |-> ""] @@ RandintDraw(s, low, high, size)

-----------------------------------------------------------------------------
(* NRandomSubSequenceDataset.__init__ *)

ExpandTier_KeepNone(tier, ii, n) ==
    IF tier = "train"
    THEN [new_tiers |-> Repeat("train", n), new_inds |-> Repeat(ii, n)]
    ELSE [new_tiers |-> <<tier>>, new_inds |-> <<ii>>]

\* the body of the loop over the tiers: the entries one base item gets
ExpandTier(tier, ii, n) ==
    IF tier # "none"
    THEN IF tier = "train"
         THEN [new_tiers |-> Repeat("train", n), new_inds |-> Repeat(ii, n)]
         ELSE [new_tiers |-> <<tier>>, new_inds |-> <<ii>>]
    ELSE [new_tiers |-> <<>>, new_inds |-> <<>>]

\* for ii, tier in enumerate(original_dat.trial_info.tiers), from item ii on
RECURSIVE BuildIndex(_, _, _)
BuildIndex(tiers, ii, n) ==
    IF ii >= Len(tiers) THEN [new_tiers |-> <<>>, new_inds |-> <<>>]
    ELSE LET one == ExpandTier(tiers[ii + 1], ii, n)
             rest == BuildIndex(tiers, ii + 1, n)
         IN  [new_tiers |-> one.new_tiers \o rest.new_tiers,
              new_inds |-> one.new_inds \o rest.new_inds]

DrawRandomStart_NoSeed(rng, seed, n, sublen, seqlen) ==
    Randint(rng, 0, seqlen - sublen, n)

DrawRandomStart_Inclusive(rng, seed, n, sublen, seqlen) ==
    Randint(RngSeed(seed), 0, seqlen - sublen + 1, n)

\* random_start is None: np.random.seed(seed), then one randint call
DrawRandomStart(rng, seed, n, sublen, seqlen) ==
    Randint(RngSeed(seed), 0, seqlen - sublen, n)

CheckRandomStart_AtMost(random_start, n) ==
    IF Len(random_start) <= n THEN "" ELSE "AssertionError"

\* the assert on a random_start the caller gives
CheckRandomStart(random_start, n) ==
    IF Len(random_start) = n THEN "" ELSE "AssertionError"

RandomEnd_FullLength(random_start, sublen, seqlen) ==
    [i \in 1..Len(random_start) |-> random_start[i] + seqlen]

\* self.random_end = self.random_start + subsequence_length (an array sum)
RandomEnd(random_start, sublen, seqlen) ==
    [i \in 1..Len(random_start) |-> random_start[i] + sublen]

\* the arguments of a construction: random_start is [given, val], given
\* FALSE standing for None
ViewArgs(n, sublen, seqlen, rs, seed) ==
    [num_random_subsequence |-> n, subsequence_length |-> sublen,
     sequence_length |-> seqlen, random_start |-> rs, seed |-> seed]

NoArgs == ViewArgs(0, 0, 0, [given |-> FALSE, val |-> <<>>], 0)

NoView ==
    [status |-> "none", err |-> "", args |-> NoArgs,
     new_tiers |-> <<>>, new_inds |-> <<>>,
     random_start |-> <<>>, random_end |-> <<>>, num4rand |-> 0]

\* the whole constructor: the view it leaves (or the error it raises) and
\* the state it leaves numpy's generator in
NRandomSubSequenceDataset_init(tiers, a, rng) ==
    LET n == a.num_random_subsequence
        idx == BuildIndex(tiers, 0, n)
        drawn == DrawRandomStart(rng, a.seed, n, a.subsequence_length, a.sequence_length)
        err == IF a.random_start.given
               THEN CheckRandomStart(a.random_start.val, n)
               ELSE drawn.err
        start == IF a.random_start.given THEN a.random_start.val ELSE drawn.vals
        rng1 == IF a.random_start.given THEN rng ELSE drawn.rng
    IN  IF err # ""
        THEN [self |-> [NoView EXCEPT !.status = "failed", !.err = err, !.args = a],
              rng |-> rng1]
        ELSE [self |-> [status |-> "ready", err |-> "", args |-> a,
                        new_tiers |-> idx.new_tiers, new_inds |-> idx.new_inds,
                        random_start |-> start,
                        random_end |-> RandomEnd(start, a.subsequence_length,
                                                 a.sequence_length),
                        num4rand |-> Len(start)],
              rng |-> rng1]

-----------------------------------------------------------------------------
(* NRandomSubSequenceDataset.__getitem__ and __len__ *)

WindowPos_ByItem(self, index) == self.new_inds[index + 1] % self.num4rand

\* index % self.num4rand: the position in random_start / random_end
WindowPos(self, index) == index % self.num4rand

\* the value __getitem__ returns for 0 <= index < len(self.new_tiers)
ViewGetItem(self, index, T) ==
    LET base == OriginalGetItem(self.new_inds[index + 1], T)
    IN  IF self.new_tiers[index + 1] = "train"
        THEN [k \in Fields |->
                PySlice(base[k],
                        self.random_start[WindowPos(self, index) + 1],
                        self.random_end[WindowPos(self, index) + 1])]
        ELSE base

ViewLen(self) == Len(self.new_tiers)

-----------------------------------------------------------------------------
(* The HDF5 container of an H5SequenceSet *)

GroupNames == {"inputs", "responses", "behavior"}

GroupNo(g) == IF g = "inputs" THEN 1 ELSE IF g = "responses" THEN 2 ELSE 3

\* str(item): the decimal digits of a natural number, most significant first
RECURSIVE Digits(_)
Digits(i) == IF i < 10 THEN <<i>> ELSE Append(Digits(i \div 10), i % 10)

\* the key str(item) of a member of an HDF5 group
StrKey(item) == [type |-> "str", digits |-> Digits(item)]

\* the key item (an int) of a materialised group
IntKey(item) == [type |-> "int", digits |-> <<item>>]

\* a container: group g holds lens[g] members named "0", "1", ...
MakeFile(lens) ==
    [g \in DOMAIN lens |->
        [k \in {StrKey(i) : i \in 0..(lens[g] - 1)} |-> 10 * GroupNo(g) + k.digits[1]]]

\* len(self.data[key]) of a group
GroupLen(data, key) == Cardinality(DOMAIN data[key])

\* recursively_load_dict_contents_from_group(self._fid): every group
\* materialised, addressable by integer
LoadAll(f) ==
    [g \in DOMAIN f |->
        [k \in {IntKey(i) : i \in 0..(GroupLen(f, g) - 1)} |-> f[g][StrKey(k.digits[1])]]]

-----------------------------------------------------------------------------
(* H5SequenceSet.__init__ and MovieSet.__init__ *)

NoDuplicates(names) == \A i, j \in 1..Len(names) : i # j => names[i] # names[j]

\* namedtuple(typename, field_names): ValueError on a duplicate field name
NamedTuple(names) == IF NoDuplicates(names) THEN "" ELSE "ValueError"

RECURSIVE CheckKeys_OnlyShorter(_, _, _, _)
CheckKeys_OnlyShorter(data, keys, i, m) ==
    IF i > Len(keys) THEN [err |-> "", m |-> m]
    ELSE IF keys[i] \notin DOMAIN data THEN [err |-> "AssertionError", m |-> m]
    ELSE LET l == GroupLen(data, keys[i])
         IN  IF m # -1 /\ l < m THEN [err |-> "ValueError", m |-> m]
             ELSE CheckKeys_OnlyShorter(data, keys, i + 1, l)

\* the loop that ensures all elements of data_keys exist and have one
\* length, from key i on; m = -1 stands for None
RECURSIVE CheckKeys(_, _, _, _)
CheckKeys(data, keys, i, m) ==
    IF i > Len(keys) THEN [err |-> "", m |-> m]
    ELSE IF keys[i] \notin DOMAIN data THEN [err |-> "AssertionError", m |-> m]
    ELSE LET l == GroupLen(data, keys[i])
         IN  IF m # -1 /\ l # m THEN [err |-> "ValueError", m |-> m]
             ELSE CheckKeys(data, keys, i + 1, l)

\* output_rename.get(k, k); the dict is a set of <<key, value>> pairs
RenameGet(output_rename, k) ==
    IF \E p \in output_rename : p[1] = k
    THEN (CHOOSE p \in output_rename : p[1] = k)[2]
    ELSE k

\* [output_rename.get(k, k) for k in data_keys]
RenamedKeys(data_keys, output_rename) ==
    [i \in 1..Len(data_keys) |-> RenameGet(output_rename, data_keys[i])]

\* the arguments of a construction; cls tells which constructor is called
H5Args(cls, data_keys, output_rename, transforms, output_dict) ==
    [cls |-> cls, data_keys |-> data_keys, output_rename |-> output_rename,
     transforms |-> transforms, output_dict |-> output_dict]

NoH5Args == H5Args("none", <<>>, {}, <<>>, FALSE)

NoH5 ==
    [status |-> "none", err |-> "", args |-> NoH5Args,
     output_dict |-> FALSE, rename_output |-> TRUE, output_rename |-> {},
     data |-> <<>>, data_loaded |-> FALSE, _len |-> -1,
     _transform_set |-> "none", data_keys |-> <<>>, transforms |-> <<>>,
     output_fields |-> <<>>]

H5Failed(a, err) == [NoH5 EXCEPT !.status = "failed", !.err = err, !.args = a]

AcceptedSet_AlwaysData(cls) == "DataTransform"

\* self._transform_set once the constructor of cls has run
AcceptedSet(cls) == IF cls = "MovieSet" THEN "MovieTransform" ELSE "DataTransform"

\* H5SequenceSet(filename, *data_keys, ...) and MovieSet(filename,
\* *data_groups, ...), which runs the former and then sets _transform_set
H5SequenceSet_init(f, a) ==
    LET checked == CheckKeys(f, a.data_keys, 1, -1)
        renamed == RenamedKeys(a.data_keys, a.output_rename)
    IN  IF checked.err # "" THEN H5Failed(a, checked.err)
        ELSE IF NamedTuple(a.data_keys) # "" THEN H5Failed(a, NamedTuple(a.data_keys))
        ELSE IF NamedTuple(renamed) # "" THEN H5Failed(a, NamedTuple(renamed))
        ELSE [status |-> "ready", err |-> "", args |-> a,
              output_dict |-> a.output_dict, rename_output |-> TRUE,
              output_rename |-> a.output_rename,
              data |-> f, data_loaded |-> FALSE, _len |-> checked.m,
              _transform_set |-> AcceptedSet(a.cls),
              data_keys |-> a.data_keys, transforms |-> a.transforms,
              output_fields |-> renamed]

-----------------------------------------------------------------------------
(* H5SequenceSet: load_content, unload_content, __getitem__, __len__ *)

LoadContent_KeepFlag(self, f) == [self EXCEPT !.data = LoadAll(f)]

LoadContent(self, f) == [self EXCEPT !.data = LoadAll(f), !.data_loaded = TRUE]

UnloadContent(self, f) == [self EXCEPT !.data = f, !.data_loaded = FALSE]

\* item if self.data_loaded else str(item)
ItemKey(self, item) == IF self.data_loaded THEN IntKey(item) ELSE StrKey(item)

\* tr(x) of a transform stage: a new value for every field
TransformCall(tr, x) == [i \in DOMAIN x |-> 2 * x[i] + 1]

ApplyTransforms_NoAssert(x, transforms, i, accepted) ==
    [err |-> "", x |-> x]

\* for tr in self.transforms: assert isinstance(tr, self._transform_set);
\* x = tr(x), from stage i on
RECURSIVE ApplyTransforms(_, _, _, _)
ApplyTransforms(x, transforms, i, accepted) ==
    IF i > Len(transforms) THEN [err |-> "", x |-> x]
    ELSE IF accepted \notin transforms[i].isa THEN [err |-> "AssertionError", x |-> x]
    ELSE ApplyTransforms(TransformCall(transforms[i], x), transforms, i + 1, accepted)

\* self[item]: the error raised or the value returned
H5GetItem(self, item) ==
    LET key == ItemKey(self, item)
        found == \A i \in 1..Len(self.data_keys) : key \in DOMAIN self.data[self.data_keys[i]]
        x0 == [i \in 1..Len(self.data_keys) |-> self.data[self.data_keys[i]][key]]
        tr == ApplyTransforms(x0, self.transforms, 1, self._transform_set)
    IN  IF ~found THEN [err |-> "KeyError", value |-> <<>>]
        ELSE IF tr.err # "" THEN [err |-> tr.err, value |-> <<>>]
        ELSE [err |-> "",
              value |-> [type |-> IF self.output_dict THEN "dict"
                                  ELSE IF self.rename_output THEN "OutputPoint"
                                  ELSE "DataPoint",
                         fields |-> IF self.rename_output THEN self.output_fields
                                    ELSE self.data_keys,
                         values |-> tr.x]]

\* len(self): __len__ returns self._len, a TypeError when that is None
H5Len(self) ==
    IF self._len = -1 THEN [err |-> "TypeError", value |-> <<>>]
    ELSE [err |-> "", value |-> self._len]

-----------------------------------------------------------------------------
(* The view's operations as actions *)

NoRet == [op |-> "none", index |-> 0, err |-> "", value |-> <<>>]

\* the constructions tried, every argument from a small set: without a
\* random_start every sequence_length and seed; with one, which makes the
\* constructor read neither, one value of each
ArgChoices ==
    {ViewArgs(n, sublen, seqlen, [given |-> FALSE, val |-> <<>>], seed) :
        n \in 1..MaxNum, sublen \in 1..MaxTime, seqlen \in 1..(MaxTime + 2),
        seed \in Seeds}
    \cup
    {ViewArgs(n, sublen, MaxTime, [given |-> TRUE, val |-> s], 0) :
        n \in 1..MaxNum, sublen \in 1..MaxTime,
        s \in SeqsUpTo(StartVals, MaxNum) \ {<<>>}}

\* view = NRandomSubSequenceDataset(original_dat, ...)
Construct ==
    /\ view.status = "none"
    /\ \E a \in ArgChoices :
          /\ LET r == NRandomSubSequenceDataset_init(original_tiers, a, np_random)
             IN  /\ view' = r.self
                 /\ np_random' = r.rng
    /\ UNCHANGED <<original_tiers, time_len, twin, samples_read, ret>>
    /\ UNCHANGED h5Vars

\* a second view over the same base, every argument but the seed as the
\* first one's
ConstructTwin ==
    /\ view.status # "none"
    /\ twin.status = "none"
    /\ \E seed \in Seeds :
          LET r == NRandomSubSequenceDataset_init(
                       original_tiers, [view.args EXCEPT !.seed = seed], np_random)
          IN  /\ twin' = r.self
              /\ np_random' = r.rng
    /\ UNCHANGED <<original_tiers, time_len, view, samples_read, ret>>
    /\ UNCHANGED h5Vars

\* view[index]; index = len(view) is the IndexError of new_tiers[index]
GetItem ==
    /\ view.status = "ready"
    /\ \E index \in 0..ViewLen(view) :
          IF index < ViewLen(view)
          THEN /\ ret' = [op |-> "getitem", index |-> index, err |-> "",
                          value |-> ViewGetItem(view, index, time_len)]
               /\ samples_read' = samples_read \cup {view.new_inds[index + 1]}
          ELSE /\ ret' = [op |-> "getitem", index |-> index,
                          err |-> "IndexError", value |-> <<>>]
               /\ UNCHANGED samples_read
    /\ UNCHANGED <<original_tiers, time_len, view, twin, np_random>>
    /\ UNCHANGED h5Vars

\* len(view)
LenCall ==
    /\ view.status = "ready"
    /\ ret' = [op |-> "len", index |-> 0, err |-> "", value |-> ViewLen(view)]
    /\ UNCHANGED <<original_tiers, time_len, view, twin, np_random, samples_read>>
    /\ UNCHANGED h5Vars

NoFid == <<>>

Init ==
    /\ original_tiers \in SeqsUpTo(Tiers, MaxItems)
    /\ time_len = MaxTime
    /\ view = NoView
    /\ twin = NoView
    /\ np_random \in 0..3
    /\ samples_read = {}
    /\ ret = NoRet
    /\ fid = NoFid
    /\ h5 = NoH5
    /\ last_mode = "none"
    /\ h5ret = NoRet

Next == Construct \/ ConstructTwin \/ GetItem \/ LenCall

Spec == Init /\ [][Next]_vars

-----------------------------------------------------------------------------
(* The operations of H5SequenceSet / MovieSet as actions *)

\* what isinstance(tr, cls) says of a stage, for each of the two classes
StageKinds ==
    {[isa |-> c] : c \in SUBSET {"DataTransform", "MovieTransform"}}

RenameChoices ==
    {{}, {<<"inputs", "videos">>}, {<<"inputs", "responses">>}}

H5ArgChoices ==
    {H5Args("H5SequenceSet", keys, ren, trs, od) :
        keys \in SeqsUpTo(GroupNames, MaxKeys), ren \in RenameChoices,
        trs \in SeqsUpTo(StageKinds, MaxStages), od \in BOOLEAN}
    \cup
    {H5Args("MovieSet", keys, ren, trs, FALSE) :
        keys \in SeqsUpTo(GroupNames, MaxKeys), ren \in RenameChoices,
        trs \in SeqsUpTo(StageKinds, MaxStages)}

\* h5 = H5SequenceSet(...) or MovieSet(...)
H5Construct ==
    /\ h5.status = "none"
    /\ \E a \in H5ArgChoices : h5' = H5SequenceSet_init(fid, a)
    /\ UNCHANGED <<fid, last_mode, h5ret>>
    /\ UNCHANGED viewVars

\* h5.load_content()
LoadContentCall ==
    /\ h5.status = "ready"
    /\ h5' = LoadContent(h5, fid)
    /\ last_mode' = "load_content"
    /\ h5ret' = [op |-> "load_content", index |-> 0, err |-> "", value |-> <<>>]
    /\ UNCHANGED fid
    /\ UNCHANGED viewVars

\* h5.unload_content()
UnloadContentCall ==
    /\ h5.status = "ready"
    /\ h5' = UnloadContent(h5, fid)
    /\ last_mode' = "unload_content"
    /\ h5ret' = [op |-> "unload_content", index |-> 0, err |-> "", value |-> <<>>]
    /\ UNCHANGED fid
    /\ UNCHANGED viewVars

\* h5[item]; item = MaxLen is past the end of every group
H5GetItemCall ==
    /\ h5.status = "ready"
    /\ \E item \in 0..MaxLen :
          h5ret' = [op |-> "getitem", index |-> item] @@ H5GetItem(h5, item)
    /\ UNCHANGED <<fid, h5, last_mode>>
    /\ UNCHANGED viewVars

\* len(h5)
H5LenCall ==
    /\ h5.status = "ready"
    /\ h5ret' = [op |-> "len", index |-> 0] @@ H5Len(h5)
    /\ UNCHANGED <<fid, h5, last_mode>>
    /\ UNCHANGED viewVars

\* h5.rename_output = flag, the flag that turns renaming on and off
SetRenameOutput ==
    /\ h5.status = "ready"
    /\ \E flag \in BOOLEAN : h5' = [h5 EXCEPT !.rename_output = flag]
    /\ h5' # h5
    /\ UNCHANGED <<fid, last_mode, h5ret>>
    /\ UNCHANGED viewVars

InitH5 ==
    /\ original_tiers = <<>>
    /\ time_len = MaxTime
    /\ view = NoView
    /\ twin = NoView
    /\ np_random = 0
    /\ samples_read = {}
    /\ ret = NoRet
    /\ \E lens \in [{"inputs", "responses"} -> 0..MaxLen] : fid = MakeFile(lens)
    /\ h5 = NoH5
    /\ last_mode = "none"
    /\ h5ret = NoRet

NextH5 ==
    \/ H5Construct
    \/ LoadContentCall
    \/ UnloadContentCall
    \/ H5GetItemCall
    \/ H5LenCall
    \/ SetRenameOutput

SpecH5 == InitH5 /\ [][NextH5]_vars

-----------------------------------------------------------------------------
(* Claims about NRandomSubSequenceDataset *)

Ready(v) == v.status = "ready"

Seeded(v) == ~v.args.random_start.given

TierCount(tier, n) == IF tier = "none" THEN 0 ELSE IF tier = "train" THEN n ELSE 1

\* the entries start .. start + sublen - 1 (0-based) of a that exist
Crop(a, start, sublen) ==
    [j \in 1..Max(0, Min(start + sublen, Len(a)) - start) |-> a[start + j]]

ValidIndex(v) == 0..(ViewLen(v) - 1)

\* C1: the length of a constructed view is the sum, over the base items
\* whose label is not "none", of num_random_subsequence for a "train" item
\* and 1 for any other; len(view) returns it.
C1_Length ==
    /\ Ready(view) =>
          ViewLen(view) =
            SumSeq([i \in 1..Len(original_tiers) |->
                      TierCount(original_tiers[i], view.args.num_random_subsequence)])
    /\ ret.op = "len" =>
          ret.value =
            SumSeq([i \in 1..Len(original_tiers) |->
                      TierCount(original_tiers[i], view.args.num_random_subsequence)])

C1_Witness ==
    /\ ret.op = "len"
    /\ view.args.num_random_subsequence >= 2
    /\ \E i, j \in 1..Len(original_tiers) :
          original_tiers[i] = "train" /\ original_tiers[j] # "train"

\* C2: every index in [0, len) resolves to a base item whose label is not
\* "none"; for a "train" item the result has the fields of the base sample,
\* each cut along the time axis to [start_k, start_k + subsequence_length)
\* with k = index mod num_random_subsequence; for any other item the result
\* is the base sample.
C2_GetItem ==
    Ready(view) =>
      \A index \in ValidIndex(view) :
        LET ii == view.new_inds[index + 1]
            k == index % view.args.num_random_subsequence
            base == OriginalGetItem(ii, time_len)
            got == ViewGetItem(view, index, time_len)
        IN  /\ ii \in 0..(Len(original_tiers) - 1)
            /\ original_tiers[ii + 1] # "none"
            /\ original_tiers[ii + 1] = "train" =>
                  /\ DOMAIN got = Fields
                  /\ \A f \in Fields :
                        got[f] = Crop(base[f], view.random_start[k + 1],
                                      view.args.subsequence_length)
            /\ original_tiers[ii + 1] # "train" => got = base
            /\ (ret.op = "getitem" /\ ret.index = index) => ret.value = got

C2_Witness ==
    /\ Ready(view)
    /\ ret.op = "getitem" /\ ret.err = ""
    /\ view.new_tiers[ret.index + 1] = "train"
    /\ ret.index % view.args.num_random_subsequence = 1
    /\ view.random_start[2] # view.random_start[1]
    /\ Len(ret.value["inputs"]) = view.args.subsequence_length
    /\ \E index \in ValidIndex(view) : view.new_tiers[index + 1] = "val"

\* C6: with a random_start given, the construction fails with the
\* assertion error exactly when its length differs from
\* num_random_subsequence, and no base sample has been read when it ends.
C6_StartListLength ==
    (view.status # "none" /\ ~Seeded(view)) =>
      /\ Len(view.args.random_start.val) # view.args.num_random_subsequence =>
            view.status = "failed" /\ view.err = "AssertionError"
      /\ Len(view.args.random_start.val) = view.args.num_random_subsequence =>
            Ready(view) /\ view.random_start = view.args.random_start.val
      /\ ret.op = "none" => samples_read = {}

C6_Witness ==
    /\ view.status = "failed"
    /\ ~Seeded(view)
    /\ Len(view.args.random_start.val) < view.args.num_random_subsequence
    /\ Len(original_tiers) > 0
    /\ samples_read = {}

\* C7: without a random_start, subsequence_length >= sequence_length
\* (equality too) makes the construction fail; no seeded view has an empty
\* start range.
C7_EmptyRange ==
    /\ (view.status # "none" /\ Seeded(view)
          /\ view.args.subsequence_length >= view.args.sequence_length) =>
            view.status = "failed" /\ view.err = "ValueError"
    /\ (Ready(view) /\ Seeded(view)) =>
            view.args.subsequence_length < view.args.sequence_length

C7_Witness ==
    /\ view.status = "failed"
    /\ Seeded(view)
    /\ view.args.subsequence_length = view.args.sequence_length

\* C8: in a seeded view over train items whose time axis has
\* sequence_length steps, every start lies in
\* [0, sequence_length - subsequence_length), every end is start +
\* subsequence_length, and every crop of a train item has exactly
\* subsequence_length time steps.
C8_Windows ==
    (Ready(view) /\ Seeded(view) /\ time_len = view.args.sequence_length) =>
      /\ Len(view.random_start) = view.args.num_random_subsequence
      /\ Len(view.random_end) = view.args.num_random_subsequence
      /\ \A i \in 1..Len(view.random_start) :
            /\ 0 <= view.random_start[i]
            /\ view.random_start[i] <
                  view.args.sequence_length - view.args.subsequence_length
            /\ view.random_end[i] = view.random_start[i] + view.args.subsequence_length
      /\ \A index \in ValidIndex(view) :
            view.new_tiers[index + 1] = "train" =>
              \A f \in Fields :
                Len(ViewGetItem(view, index, time_len)[f]) = view.args.subsequence_length

C8_Witness ==
    /\ Ready(view) /\ Seeded(view) /\ time_len = view.args.sequence_length
    /\ ret.op = "getitem" /\ ret.err = ""
    /\ view.new_tiers[ret.index + 1] = "train"
    /\ view.random_start[(ret.index % view.num4rand) + 1] > 0
    /\ Len(ret.value["responses"]) = view.args.subsequence_length

\* C9: once a view is constructed no call changes its index tables, its
\* windows or the base collection; a getitem returns what the tables and
\* windows of the view determine; two views built with the same seed and
\* arguments have the same windows.
C9_Immutable ==
    /\ [][Ready(view) =>
            /\ view' = view
            /\ original_tiers' = original_tiers
            /\ time_len' = time_len]_vars
    /\ [][Ready(twin) => twin' = twin]_vars
    /\ []((ret.op = "getitem" /\ ret.err = "") =>
            ret.value = ViewGetItem(view, ret.index, time_len))
    /\ []((Ready(view) /\ twin.status # "none" /\ twin.args = view.args) =>
            /\ Ready(twin)
            /\ twin.random_start = view.random_start
            /\ twin.random_end = view.random_end)

C9_Witness ==
    /\ Ready(view) /\ Ready(twin) /\ Seeded(view)
    /\ twin.args = view.args
    /\ view.args.num_random_subsequence >= 2
    /\ view.random_start[1] # view.random_start[2]
    /\ ret.op = "getitem" /\ ret.err = ""
    /\ view.new_tiers[ret.index + 1] = "train"

\* the expanded indices of base item ii
ExpandedIndices(v, ii) == {index \in ValidIndex(v) : v.new_inds[index + 1] = ii}

\* C10: the expanded indices of every train base item are
\* num_random_subsequence consecutive indices and select every position of
\* the window set exactly once, wherever the item stands among the labels.
C10_DistinctWindows ==
    Ready(view) =>
      \A ii \in 0..(Len(original_tiers) - 1) :
        original_tiers[ii + 1] = "train" =>
          LET I == ExpandedIndices(view, ii)
              n == view.args.num_random_subsequence
          IN  /\ Cardinality(I) = n
              /\ \A a, b \in I : a - b < n
              /\ \A a, b \in I : a # b => WindowPos(view, a) # WindowPos(view, b)
              /\ {WindowPos(view, a) : a \in I} = 0..(Len(view.random_start) - 1)

C10_Witness ==
    /\ Ready(view)
    /\ view.args.num_random_subsequence >= 2
    /\ ret.op = "getitem" /\ ret.err = ""
    /\ view.new_tiers[ret.index + 1] = "train"
    /\ \E ii \in 0..(Len(original_tiers) - 1) :
          /\ original_tiers[ii + 1] = "train"
          /\ ret.index \in ExpandedIndices(view, ii)
          /\ \E a \in ExpandedIndices(view, ii) :
                /\ a % view.args.num_random_subsequence # 0
                /\ \A b \in ExpandedIndices(view, ii) : a <= b

-----------------------------------------------------------------------------
(* Claims about H5SequenceSet / MovieSet *)

H5Ready == h5.status = "ready"

\* the object as its constructor left it: lazy, reading the container
LazyInitial(self) == [self EXCEPT !.data = fid, !.data_loaded = FALSE]

H5ValidIndex(self) == 0..(self._len - 1)

\* C3: after any sequence of load_content and unload_content calls the
\* length is the one the constructor set, self[i] is for every valid i what
\* the lazy object returns, and data_loaded tells which of the two was
\* called last.
C3_ModeEquivalence ==
    /\ [][H5Ready => h5'._len = h5._len]_vars
    /\ [](H5Ready =>
            /\ \A i \in H5ValidIndex(h5) :
                  H5GetItem(h5, i) = H5GetItem(LazyInitial(h5), i)
            /\ h5.data_loaded = (last_mode = "load_content")
            /\ (h5ret.op = "getitem" /\ h5ret.index \in H5ValidIndex(h5)) =>
                  /\ h5ret.err = H5GetItem(LazyInitial(h5), h5ret.index).err
                  /\ h5ret.err = "" =>
                        h5ret.value.values =
                          H5GetItem(LazyInitial(h5), h5ret.index).value.values)

C3_Witness ==
    /\ H5Ready
    /\ h5.data_loaded
    /\ h5ret.op = "getitem" /\ h5ret.err = ""
    /\ Len(h5.data_keys) = 2
    /\ Len(h5.transforms) > 0
    /\ h5ret.index = h5._len - 1

KeyAbsent(a) == \E i \in 1..Len(a.data_keys) : a.data_keys[i] \notin DOMAIN fid

LengthsDiffer(a) ==
    \E i, j \in 1..Len(a.data_keys) :
        /\ a.data_keys[i] \in DOMAIN fid
        /\ a.data_keys[j] \in DOMAIN fid
        /\ GroupLen(fid, a.data_keys[i]) # GroupLen(fid, a.data_keys[j])

SchemaError == {"AssertionError", "ValueError"}

\* C4 as stated: the construction fails with a schema error if a requested
\* name is absent or two requested groups differ in length, and otherwise
\* succeeds with the common group length as its length.
C4_Original ==
    h5.status # "none" =>
      /\ (KeyAbsent(h5.args) \/ LengthsDiffer(h5.args)) =>
            h5.status = "failed" /\ h5.err \in SchemaError
      /\ ~(KeyAbsent(h5.args) \/ LengthsDiffer(h5.args)) =>
            /\ H5Ready
            /\ \A i \in 1..Len(h5.args.data_keys) :
                  h5._len = GroupLen(fid, h5.args.data_keys[i])

\* C4 amended: the construction fails with a schema error if a requested
\* name is absent or two requested groups differ in length, wherever they
\* stand in the list; otherwise, for a non-empty list of pairwise different
\* names whose output names are pairwise different too, it succeeds and the
\* length is the common group length.
C4_Schema ==
    h5.status # "none" =>
      /\ (KeyAbsent(h5.args) \/ LengthsDiffer(h5.args)) =>
            h5.status = "failed" /\ h5.err \in SchemaError
      /\ (/\ ~(KeyAbsent(h5.args) \/ LengthsDiffer(h5.args))
          /\ h5.args.data_keys # <<>>
          /\ NoDuplicates(h5.args.data_keys)
          /\ NoDuplicates(RenamedKeys(h5.args.data_keys, h5.args.output_rename))) =>
            /\ H5Ready
            /\ \A i \in 1..Len(h5.args.data_keys) :
                  h5._len = GroupLen(fid, h5.args.data_keys[i])
            /\ h5ret.op = "len" => h5ret.err = "" /\ h5ret.value = h5._len

C4_Witness ==
    /\ H5Ready
    /\ Len(h5.args.data_keys) = 2
    /\ h5._len > 0
    /\ h5ret.op = "len" /\ h5ret.value = h5._len

Incompatible(a) ==
    \E i \in 1..Len(a.transforms) :
        (IF a.cls = "MovieSet" THEN "MovieTransform" ELSE "DataTransform")
            \notin a.transforms[i].isa

\* C5 as stated: a stage that is no instance of the class the collection
\* accepts makes the construction fail, and no read fails because of it.
C5_Original ==
    /\ (h5.status # "none" /\ Incompatible(h5.args)) => h5.status = "failed"
    /\ h5ret.op = "getitem" => h5ret.err # "AssertionError"

\* C5 amended: a stage that is no instance of the class the collection
\* accepts (DataTransform for H5SequenceSet, MovieTransform for MovieSet)
\* does not make the construction fail; every read of a valid index then
\* fails with the assertion error, and no other read does.
C5_ReadTime ==
    /\ h5.status = "failed" =>
          \/ KeyAbsent(h5.args) \/ LengthsDiffer(h5.args)
          \/ ~NoDuplicates(h5.args.data_keys)
          \/ ~NoDuplicates(RenamedKeys(h5.args.data_keys, h5.args.output_rename))
    /\ H5Ready =>
          /\ h5._transform_set =
               (IF h5.args.cls = "MovieSet" THEN "MovieTransform" ELSE "DataTransform")
          /\ \A i \in H5ValidIndex(h5) :
                (H5GetItem(h5, i).err = "AssertionError") <=> Incompatible(h5.args)
          /\ (h5ret.op = "getitem" /\ h5ret.index \in H5ValidIndex(h5)) =>
                ((h5ret.err = "AssertionError") <=> Incompatible(h5.args))

C5_Witness ==
    /\ H5Ready
    /\ h5.args.cls = "MovieSet"
    /\ Incompatible(h5.args)
    /\ \E i \in 1..Len(h5.transforms) : "DataTransform" \in h5.transforms[i].isa
    /\ h5ret.op = "getitem" /\ h5ret.err = "AssertionError"

====
